---- MODULE Spec2Model ----
(***************************************************************************)
(* Model of ahp.py: the AHP numerical core (calculate_ahp,                 *)
(* geometric_mean_matrix) and the upload pipeline that scores every sheet  *)
(* of a workbook, filters by CR and aggregates the admitted matrices.      *)
(*                                                                         *)
(* Numbers.  The program computes in IEEE doubles.  The model computes in  *)
(* exact rationals extended with the three IEEE specials, so a value is a  *)
(* pair <<n, d>>: d > 0 and gcd(n, d) = 1 for a finite n/d, <<0, 0>> for   *)
(* NaN, <<1, 0>> for +inf and <<-1, 0>> for -inf.  Division by zero and    *)
(* NaN propagation follow IEEE (numpy warns, it does not raise); rounding  *)
(* error is not modelled, so equalities below are equalities of the real   *)
(* numbers the doubles approximate.                                        *)
(***************************************************************************)
EXTENDS Integers, Sequences, FiniteSets, TLC

VARIABLES
    pc,             \* "loop" while sheets are read, "done" after the run
    grids,          \* df_clean.values of every sheet read so far, in order
    expert_results, \* the list expert_results
    valid_matrices, \* the list valid_matrices
    warnings,       \* sheets named by st.warning, in order
    table,          \* <<rows>> once the per-expert table is shown, else <<>>
    agg_input,      \* <<collection>> once geometric_mean_matrix is called
    final_matrix,   \* <<matrix>> once geometric_mean_matrix has returned
    ranking,        \* TRUE once calculate_ahp ran on final_matrix and the
                    \* metrics, ranking table and bar chart are shown
    errors,         \* st.error messages, in order
    arg,            \* harness of the pure functions: the argument
    ret             \* harness of the pure functions: <<result>> or <<>>

vars == <<pc, grids, expert_results, valid_matrices, warnings, table,
          agg_input, final_matrix, ranking, errors, arg, ret>>

pipeVars == <<pc, grids, expert_results, valid_matrices, warnings, table,
              agg_input, final_matrix, ranking, errors>>

(***************************************************************************)
(* Bounds of the model.                                                    *)
(***************************************************************************)
MaxSheets == 2      \* sheets in an uploaded workbook
MaxExperts == 2     \* matrices in a collection given to the aggregator alone
MaxOrder == 3       \* order of the matrices given to calculate_ahp alone
MaxJudgment == 2    \* judgments k and 1/k, k in 1..MaxJudgment
MaxWeight == 3      \* weights of a perfectly consistent matrix

(***************************************************************************)
(* Extended rational arithmetic.                                           *)
(***************************************************************************)
NaN == <<0, 0>>
PosInf == <<1, 0>>
NegInf == <<-1, 0>>
Zero == <<0, 1>>
One == <<1, 1>>

Abs(i) == IF i < 0 THEN -i ELSE i

Sign(i) == IF i < 0 THEN -1 ELSE IF i > 0 THEN 1 ELSE 0

RECURSIVE Gcd(_, _)
Gcd(a, b) == IF b = 0 THEN a ELSE Gcd(b, a % b)

\* The finite value n/d (d /= 0) in lowest terms with a positive denominator.
Norm(n, d) ==
    LET g == Gcd(Abs(n), Abs(d))
        s == Sign(d)
    IN  <<(s * n) \div g, (s * d) \div g>>

IsNaN(x) == x = NaN

IsInf(x) == x[2] = 0 /\ x[1] /= 0

IsFinite(x) == x[2] /= 0

Rat(n, d) == Norm(n, d)

Whole(n) == <<n, 1>>

Add(x, y) ==
    IF IsNaN(x) \/ IsNaN(y) THEN NaN
    ELSE IF IsInf(x) /\ IsInf(y) THEN (IF x = y THEN x ELSE NaN)
    ELSE IF IsInf(x) THEN x
    ELSE IF IsInf(y) THEN y
    ELSE LET g == Gcd(x[2], y[2])
         IN  Norm(x[1] * (y[2] \div g) + y[1] * (x[2] \div g),
                  (x[2] \div g) * y[2])

Neg(x) == <<-x[1], x[2]>>

Sub(x, y) == Add(x, Neg(y))

Mul(x, y) ==
    IF IsNaN(x) \/ IsNaN(y) THEN NaN
    ELSE IF IsInf(x) \/ IsInf(y)
         THEN (IF x[1] = 0 \/ y[1] = 0 THEN NaN
               ELSE <<Sign(x[1]) * Sign(y[1]), 0>>)
    ELSE LET g1 == Gcd(Abs(x[1]), y[2])
             g2 == Gcd(Abs(y[1]), x[2])
         IN  IF x[1] = 0 \/ y[1] = 0 THEN Zero
             ELSE <<(x[1] \div g1) * (y[1] \div g2),
                    (x[2] \div g2) * (y[2] \div g1)>>

\* IEEE division: x/0 is +-inf, 0/0 and inf/inf are NaN, finite/inf is 0.
Div(x, y) ==
    IF IsNaN(x) \/ IsNaN(y) THEN NaN
    ELSE IF IsInf(y) THEN (IF IsInf(x) THEN NaN ELSE Zero)
    ELSE IF y[1] = 0 THEN (IF x[1] = 0 THEN NaN ELSE <<Sign(x[1]), 0>>)
    ELSE IF IsInf(x) THEN <<Sign(x[1]) * Sign(y[1]), 0>>
    ELSE Mul(x, Norm(y[2], y[1]))

\* x < y; every comparison with NaN is false.
Lt(x, y) ==
    IF IsNaN(x) \/ IsNaN(y) THEN FALSE
    ELSE IF IsInf(x) \/ IsInf(y)
         THEN (IF IsInf(x) /\ IsInf(y) THEN x[1] < y[1]
               ELSE IF IsInf(x) THEN x[1] < 0
               ELSE y[1] > 0)
    ELSE x[1] * y[2] < y[1] * x[2]

Le(x, y) == Lt(x, y) \/ (x = y /\ ~IsNaN(x))

RECURSIVE SumSeq(_)
SumSeq(s) == IF s = <<>> THEN Zero ELSE Add(Head(s), SumSeq(Tail(s)))

RECURSIVE ProdSeq(_)
ProdSeq(s) == IF s = <<>> THEN One ELSE Mul(Head(s), ProdSeq(Tail(s)))

(***************************************************************************)
(* Matrices are sequences of rows; every grid is rectangular.             *)
(***************************************************************************)
Rows(m) == Len(m)

Cols(m) == IF m = <<>> THEN 0 ELSE Len(m[1])

Column(m, j) == [i \in 1..Rows(m) |-> m[i][j]]

(***************************************************************************)
(* calculate_ahp: weights by column normalisation and row means, then CI   *)
(* and CR.                                                                 *)
(***************************************************************************)
col_sums(matrix) ==
    [j \in 1..Cols(matrix) |-> SumSeq(Column(matrix, j))]

\* matrix / col_sums broadcast along the rows instead of the columns
normalized_matrix_wrong_axis(matrix) ==
    LET s == col_sums(matrix)
    IN  [i \in 1..Rows(matrix) |->
            [j \in 1..Cols(matrix) |-> Div(matrix[i][j], s[i])]]

normalized_matrix(matrix) ==
    LET s == col_sums(matrix)
    IN  [i \in 1..Rows(matrix) |->
            [j \in 1..Cols(matrix) |-> Div(matrix[i][j], s[j])]]

weights_colmean(matrix) ==
    LET nm == normalized_matrix(matrix)
    IN  [i \in 1..Rows(matrix) |->
            Div(SumSeq(Column(nm, i)), Whole(Rows(matrix)))]

weights(matrix) ==
    LET nm == normalized_matrix(matrix)
    IN  [i \in 1..Rows(matrix) |->
            Div(SumSeq(nm[i]), Whole(Cols(matrix)))]

\* np.dot(col_sums, weights)
lambda_max(matrix) ==
    LET s == col_sums(matrix)
        w == weights(matrix)
    IN  SumSeq([j \in 1..Rows(matrix) |-> Mul(s[j], w[j])])

\* (lambda_max - n) / (n - 1), evaluated for every n
ci(matrix) ==
    Div(Sub(lambda_max(matrix), Whole(Rows(matrix))),
        Whole(Rows(matrix) - 1))

ri_table ==
    <<Zero, Zero, Rat(58, 100), Rat(90, 100), Rat(112, 100), Rat(124, 100),
      Rat(132, 100), Rat(141, 100), Rat(145, 100), Rat(149, 100),
      Rat(151, 100), Rat(148, 100), Rat(156, 100), Rat(157, 100),
      Rat(159, 100)>>

\* ri_table.get(n, 1.49)
ri(n) == IF n \in DOMAIN ri_table THEN ri_table[n] ELSE Rat(149, 100)

cr(matrix) ==
    IF Rows(matrix) > 2 THEN Div(ci(matrix), ri(Rows(matrix))) ELSE Zero

calculate_ahp(matrix) ==
    [weights |-> weights(matrix), cr |-> cr(matrix), ci |-> ci(matrix)]

(***************************************************************************)
(* geometric_mean_matrix.  np.power(prod, 1/k) leaves the rationals, so an *)
(* entry of the result is a radical [rad |-> p, deg |-> d], the real       *)
(* number p^(1/d), kept in the canonical form with the least d (deg = 1    *)
(* is the rational p itself).                                              *)
(***************************************************************************)
RECURSIVE Pow(_, _)
Pow(b, e) == IF e = 0 THEN 1 ELSE b * Pow(b, e - 1)

\* The least r >= from with r^d >= x.
RECURSIVE IRootFrom(_, _, _)
IRootFrom(x, d, from) ==
    IF Pow(from, d) >= x THEN from ELSE IRootFrom(x, d, from + 1)

IRoot(x, d) == IRootFrom(x, d, 0)

IsPerfectPower(x, d) == Pow(IRoot(x, d), d) = x

\* A positive finite rational that has a rational d-th root.
HasRatRoot(p, d) == IsPerfectPower(p[1], d) /\ IsPerfectPower(p[2], d)

RatRoot(p, d) == <<IRoot(p[1], d), IRoot(p[2], d)>>

Radical(p, k) ==
    LET ds == {d \in 1..k : k % d = 0 /\ HasRatRoot(p, d)}
        d  == CHOOSE x \in ds : \A y \in ds : y <= x
    IN  [rad |-> RatRoot(p, d), deg |-> k \div d]

Exact(p) == [rad |-> p, deg |-> 1]

\* np.power(p, 1/k) for k >= 1
Power(p, k) ==
    IF k = 1 \/ IsNaN(p) \/ p = Zero \/ p = PosInf THEN Exact(p)
    ELSE IF p = NegInf THEN Exact(PosInf)
    ELSE IF p[1] < 0 THEN Exact(NaN)
    ELSE Radical(p, k)

RatPow(p, e) == <<Pow(p[1], e), Pow(p[2], e)>>

\* The product of two radicals of positive rationals, or of two rationals.
RMul(a, b) ==
    IF a.deg = 1 /\ b.deg = 1 THEN Exact(Mul(a.rad, b.rad))
    ELSE Radical(Mul(RatPow(a.rad, b.deg), RatPow(b.rad, a.deg)),
                 a.deg * b.deg)

Shape(m) == <<Rows(m), Cols(m)>>

\* np.array(matrices) of arrays of unequal shapes raises ValueError.
Stackable(matrices) ==
    \A e \in 1..Len(matrices) : Shape(matrices[e]) = Shape(matrices[1])

prod(matrices) ==
    [i \in 1..Rows(matrices[1]) |->
        [j \in 1..Cols(matrices[1]) |->
            ProdSeq([e \in 1..Len(matrices) |-> matrices[e][i][j]])]]

arithmetic_mean_matrix(matrices) ==
    [i \in 1..Rows(matrices[1]) |->
        [j \in 1..Cols(matrices[1]) |->
            Exact(Div(SumSeq([e \in 1..Len(matrices) |-> matrices[e][i][j]]),
                      Whole(Len(matrices))))]]

\* For a non-empty list of equal-shape matrices.
geometric_mean_matrix(matrices) ==
    LET p == prod(matrices)
    IN  [i \in 1..Rows(p) |->
            [j \in 1..Cols(p) |-> Power(p[i][j], Len(matrices))]]

(***************************************************************************)
(* Workbooks.  A raw sheet is a grid of cells as pd.read_excel(header=None)*)
(* returns them: a number, a text, a blank, an Excel error value.  A       *)
(* formula cell is read as its cached value.                               *)
(***************************************************************************)
Num(x) == [t |-> "num", v |-> x]

Text == [t |-> "text", v |-> NaN]

Blank == [t |-> "blank", v |-> NaN]

ErrorValue == [t |-> "error", v |-> NaN]

\* One sheet of generate_excel_template: a title row, a label column, 1 on
\* the diagonal and in the upper triangle, and below the diagonal the
\* formula =1/<mirrored cell>, which xlsxwriter stores with the cached
\* value 0 until a spreadsheet program recalculates it.
generate_excel_template(n_criteria) ==
    [r \in 1..(n_criteria + 1) |->
        [c \in 1..(n_criteria + 1) |->
            IF r = 1 \/ c = 1 THEN Text
            ELSE IF r <= c THEN Num(One)
            ELSE Num(Zero)]]

\* The template after the expert typed the judgments up[<<i, j>>], i < j,
\* into the upper triangle and the spreadsheet program recalculated the
\* formulas: 1/x, or #DIV/0! for x blank or 0.
FilledTemplate(n, up) ==
    [r \in 1..(n + 1) |->
        [c \in 1..(n + 1) |->
            IF r = 1 \/ c = 1 THEN Text
            ELSE IF r = c THEN Num(One)
            ELSE IF r < c THEN up[<<r - 1, c - 1>>]
            ELSE LET x == up[<<c - 1, r - 1>>]
                 IN  IF x.t = "num" /\ x.v /= Zero
                     THEN Num(Div(One, x.v)) ELSE ErrorValue]]

UpperCells(n) == {ij \in (1..n) \X (1..n) : ij[1] < ij[2]}

\* A sheet with row r cleared.
ClearRow(sheet, r) ==
    [i \in 1..Len(sheet) |->
        IF i = r THEN [j \in 1..Len(sheet[i]) |-> Blank] ELSE sheet[i]]

\* A sheet with column c cleared.
ClearColumn(sheet, c) ==
    [i \in 1..Len(sheet) |->
        [j \in 1..Len(sheet[i]) |-> IF j = c THEN Blank ELSE sheet[i][j]]]

\* A bare grid, no title row or label column: d on the diagonal, 1 elsewhere.
DiagonalSheet(n, d) ==
    [r \in 1..n |-> [c \in 1..n |-> IF r = c THEN Num(d) ELSE Num(One)]]

SheetOrders == {1, 2, 3}

SheetJudgments == {Num(One), Num(Rat(2, 1))}

AllOnes(n) == [ij \in UpperCells(n) |-> Num(One)]

\* The diagonal that puts CR of a 3x3 grid of ones exactly on 0.10.
BoundaryDiagonal == Rat(1116, 1000)

RawSheets ==
    UNION {{FilledTemplate(n, up) : up \in [UpperCells(n) -> SheetJudgments]}
              : n \in SheetOrders}
    \cup {generate_excel_template(n) : n \in SheetOrders}
    \cup {FilledTemplate(3, [AllOnes(3) EXCEPT ![<<1, 2>>] = x])
              : x \in {Num(Zero), Blank}}
    \cup {DiagonalSheet(3, BoundaryDiagonal)}
    \cup {ClearRow(FilledTemplate(3, AllOnes(3)), 4),
          ClearColumn(FilledTemplate(3, AllOnes(3)), 4),
          ClearRow(generate_excel_template(1), 2),
          <<>>}

(***************************************************************************)
(* Cleaning of one sheet, as the upload loop does it.                      *)
(***************************************************************************)
\* pd.to_numeric(errors='coerce') on one cell
to_numeric(cell) == IF cell.t = "num" THEN cell.v ELSE NaN

df_numeric(df) ==
    [i \in 1..Len(df) |-> [j \in 1..Len(df[i]) |-> to_numeric(df[i][j])]]

AllNaN(s) == \A k \in 1..Len(s) : IsNaN(s[k])

\* dropna(how='all')
dropna_rows(df) == SelectSeq(df, LAMBDA row : ~AllNaN(row))

\* dropna(axis=1, how='all')
dropna_columns(df) ==
    LET keep == SelectSeq([j \in 1..Cols(df) |-> j],
                          LAMBDA j : ~AllNaN(Column(df, j)))
    IN  [i \in 1..Len(df) |-> [k \in 1..Len(keep) |-> df[i][keep[k]]]]

\* df_clean.values
df_clean(df) == dropna_columns(dropna_rows(df_numeric(df)))

\* round(cr, 4): to the nearest multiple of 1/10000, ties to even.
round4(x) ==
    IF ~IsFinite(x) THEN x
    ELSE LET n == x[1] * 10000
             q == n \div x[2]
             r == n - q * x[2]
             up == 2 * r > x[2] \/ (2 * r = x[2] /\ q % 2 = 1)
         IN  Rat(IF up THEN q + 1 ELSE q, 10000)

Threshold == Rat(1, 10)

is_pass_inclusive(c) == Le(c, Threshold)

\* cr < 0.1
is_pass(c) == Lt(c, Threshold)

is_square_from_two(matrix) == Rows(matrix) > 1 /\ Rows(matrix) = Cols(matrix)

\* rows > 0 and rows == cols
is_square(matrix) == Rows(matrix) > 0 /\ Rows(matrix) = Cols(matrix)

(***************************************************************************)
(* The upload pipeline: one run over an uploaded workbook.                 *)
(***************************************************************************)
PipeInit ==
    /\ pc = "loop"
    /\ grids = <<>>
    /\ expert_results = <<>>
    /\ valid_matrices = <<>>
    /\ warnings = <<>>
    /\ table = <<>>
    /\ agg_input = <<>>
    /\ final_matrix = <<>>
    /\ ranking = FALSE
    /\ errors = <<>>

Init ==
    /\ PipeInit
    /\ arg = <<>>
    /\ ret = <<>>

\* pd.ExcelFile(uploaded_file) raises on a file that is no workbook; the
\* except clause reports it.
OpenFails ==
    /\ pc = "loop"
    /\ grids = <<>>
    /\ pc' = "done"
    /\ errors' = Append(errors, "read_failed")
    /\ UNCHANGED <<grids, expert_results, valid_matrices, warnings, table,
                   agg_input, final_matrix, ranking, arg, ret>>

\* One iteration of `for sheet in sheet_names`, on the next sheet.
ProcessSheet ==
    /\ pc = "loop"
    /\ Len(grids) < MaxSheets
    /\ \E raw \in RawSheets :
          LET matrix == df_clean(raw)
              sheet  == Len(grids) + 1
              res    == calculate_ahp(matrix)
          IN  /\ grids' = Append(grids, matrix)
              /\ IF is_square(matrix)
                 THEN /\ expert_results' =
                            Append(expert_results,
                                   [expert   |-> sheet,
                                    cr_value |-> round4(res.cr),
                                    result   |-> IF is_pass(res.cr)
                                                 THEN "valid" ELSE "rejected",
                                    matrix   |-> matrix])
                      /\ valid_matrices' =
                            IF is_pass(res.cr)
                            THEN Append(valid_matrices, matrix)
                            ELSE valid_matrices
                      /\ UNCHANGED warnings
                 ELSE /\ warnings' = Append(warnings, sheet)
                      /\ UNCHANGED <<expert_results, valid_matrices>>
    /\ UNCHANGED <<pc, table, agg_input, final_matrix, ranking, errors,
                   arg, ret>>

results_table_valid_only(results) ==
    LET adm == SelectSeq(results, LAMBDA r : r.result = "valid")
    IN  [k \in 1..Len(adm) |->
            [expert   |-> adm[k].expert,
             cr_value |-> adm[k].cr_value,
             result   |-> adm[k].result]]

\* results_df[["專家", "CR值", "結果"]]
results_table(results) ==
    [k \in 1..Len(results) |->
        [expert   |-> results[k].expert,
         cr_value |-> results[k].cr_value,
         result   |-> results[k].result]]

\* The code after the loop, once every sheet of the workbook is read.  A
\* list of matrices of unequal shapes makes geometric_mean_matrix raise;
\* the table is on the page by then and the except clause adds the
\* file-read error.  The metrics and the ranking shown after the final
\* calculate_ahp are a function of final_matrix alone, whose entries are
\* radicals; the state records that they were shown.
ShowResults ==
    /\ pc = "loop"
    /\ Len(grids) >= 1
    /\ pc' = "done"
    /\ IF expert_results /= <<>>
       THEN /\ table' = <<results_table(expert_results)>>
            /\ IF valid_matrices /= <<>>
               THEN /\ agg_input' = <<valid_matrices>>
                    /\ IF Stackable(valid_matrices)
                       THEN /\ final_matrix' =
                                  <<geometric_mean_matrix(valid_matrices)>>
                            /\ ranking' = TRUE
                            /\ UNCHANGED errors
                       ELSE /\ errors' = Append(errors, "read_failed")
                            /\ UNCHANGED <<final_matrix, ranking>>
               ELSE /\ errors' = Append(errors, "no_valid_expert")
                    /\ UNCHANGED <<agg_input, final_matrix, ranking>>
       ELSE UNCHANGED <<table, agg_input, final_matrix, ranking, errors>>
    /\ UNCHANGED <<grids, expert_results, valid_matrices, warnings, arg, ret>>

Next == OpenFails \/ ProcessSheet \/ ShowResults

Spec == Init /\ [][Next]_vars

(***************************************************************************)
(* calculate_ahp alone, on reciprocal and on perfectly consistent matrices.*)
(***************************************************************************)
Scale ==
    {Rat(k, 1) : k \in 1..MaxJudgment} \cup {Rat(1, k) : k \in 1..MaxJudgment}

\* The reciprocal matrix with the judgments up[<<i, j>>], i < j.
ReciprocalMatrix(n, up) ==
    [i \in 1..n |->
        [j \in 1..n |->
            IF i = j THEN One
            ELSE IF i < j THEN up[<<i, j>>]
            ELSE Div(One, up[<<j, i>>])]]

ReciprocalMatrices(n, judgments) ==
    {ReciprocalMatrix(n, up) : up \in [UpperCells(n) -> judgments]}

\* m[i][j] = w[i] / w[j]
ConsistentMatrix(w) ==
    [i \in 1..Len(w) |-> [j \in 1..Len(w) |-> Rat(w[i], w[j])]]

WeightVectors == UNION {[1..n -> 1..MaxWeight] : n \in 1..MaxOrder}

SolverInputs ==
    UNION {ReciprocalMatrices(n, Scale) : n \in 1..MaxOrder}
    \cup {ConsistentMatrix(w) : w \in WeightVectors}
    \cup {<<<<a>>>> : a \in Scale}

SolverInit ==
    /\ PipeInit
    /\ arg \in SolverInputs
    /\ ret = <<>>

Solve ==
    /\ ret = <<>>
    /\ ret' = <<calculate_ahp(arg)>>
    /\ UNCHANGED <<arg, pipeVars>>

SolverNext == Solve

SpecSolver == SolverInit /\ [][SolverNext]_vars

(***************************************************************************)
(* geometric_mean_matrix alone, on collections of reciprocal matrices of   *)
(* one order.                                                              *)
(***************************************************************************)
AggOrders == {1, 2, 3}

AggJudgments == {Rat(1, 2), One, Rat(2, 1)}

AggMatrices == UNION {ReciprocalMatrices(n, AggJudgments) : n \in AggOrders}

AggInit ==
    /\ PipeInit
    /\ arg = <<>>
    /\ ret = <<>>

AddMatrix ==
    /\ ret = <<>>
    /\ Len(arg) < MaxExperts
    /\ \E m \in AggMatrices :
          /\ arg /= <<>> => Shape(m) = Shape(arg[1])
          /\ arg' = Append(arg, m)
    /\ UNCHANGED <<ret, pipeVars>>

Aggregate ==
    /\ ret = <<>>
    /\ arg /= <<>>
    /\ ret' = <<geometric_mean_matrix(arg)>>
    /\ UNCHANGED <<arg, pipeVars>>

AggNext == AddMatrix \/ Aggregate

SpecAggregator == AggInit /\ [][AggNext]_vars

(***************************************************************************)
(* Properties.                                                             *)
(***************************************************************************)
Range(s) == {s[k] : k \in 1..Len(s)}

IsPositive(m) ==
    \A i \in 1..Rows(m) : \A j \in 1..Cols(m) :
        IsFinite(m[i][j]) /\ m[i][j][1] > 0

\* The reciprocal property of a matrix of rationals.
IsReciprocal(m) ==
    /\ Rows(m) = Cols(m)
    /\ IsPositive(m)
    /\ \A i \in 1..Rows(m) : m[i][i] = One
    /\ \A i \in 1..Rows(m) : \A j \in 1..Rows(m) :
          i /= j => m[j][i] = Div(One, m[i][j])

\* The matrices of the experts marked valid, in sheet order.
AdmittedMatrices ==
    LET adm == SelectSeq(expert_results, LAMBDA r : r.result = "valid")
    IN  [k \in 1..Len(adm) |-> adm[k].matrix]

\* C1: an expert is admitted exactly when the CR of its matrix is strictly
\* below 0.10, valid_matrices is the admitted experts' matrices in sheet
\* order, and the collection given to geometric_mean_matrix is that list,
\* with no matrix of CR >= 0.10 (or undefined CR) in it.
C1_AdmittedIffCrBelowThreshold ==
    /\ \A k \in 1..Len(expert_results) :
          LET r == expert_results[k]
          IN  (r.result = "valid") <=> Lt(cr(r.matrix), Rat(1, 10))
    /\ valid_matrices = AdmittedMatrices
    /\ agg_input /= <<>> =>
          /\ agg_input[1] = AdmittedMatrices
          /\ \A m \in Range(agg_input[1]) : Lt(cr(m), Rat(1, 10))

\* A run that scored one sheet with CR exactly 0.10 and rejected it, and
\* aggregated another one.
C1_Witness ==
    /\ pc = "done"
    /\ agg_input /= <<>>
    /\ \E k \in 1..Len(expert_results) :
          /\ cr(expert_results[k].matrix) = Rat(1, 10)
          /\ expert_results[k].result = "rejected"

\* m is the repair of the square grid raw: 1 on the diagonal, 1 wherever
\* the upper triangle of raw holds 0 or nothing, and m[j][i] = 1/m[i][j]
\* wherever m[i][j] /= 0.
IsRepairOf(m, raw) ==
    /\ Shape(m) = Shape(raw)
    /\ \A i \in 1..Rows(m) : m[i][i] = One
    /\ \A i \in 1..Rows(m) : \A j \in 1..Rows(m) :
          /\ (i < j /\ (raw[i][j] = Zero \/ IsNaN(raw[i][j]))) => m[i][j] = One
          /\ (i /= j /\ m[i][j] /= Zero) => m[j][i] = Div(One, m[i][j])

\* C2: every matrix scored by calculate_ahp, and every matrix given to
\* geometric_mean_matrix, is the repair of the grid read from its sheet.
C2_ScoredMatricesAreRepaired ==
    /\ \A k \in 1..Len(expert_results) :
          IsRepairOf(expert_results[k].matrix,
                     grids[expert_results[k].expert])
    /\ agg_input /= <<>> =>
          \A m \in Range(agg_input[1]) :
              \E k \in 1..Len(grids) : IsRepairOf(m, grids[k])

Malformed(grid) == Rows(grid) /= Cols(grid) \/ Rows(grid) < 2

\* C3: a sheet whose trimmed grid is not square, or is square of order
\* below 2, is warned about and is neither scored, listed nor admitted;
\* every other sheet is scored.
C3_MalformedSheetsAreSkipped ==
    \A i \in 1..Len(grids) :
        IF Malformed(grids[i])
        THEN /\ i \in Range(warnings)
             /\ \A k \in 1..Len(expert_results) :
                   expert_results[k].expert /= i
        ELSE \E k \in 1..Len(expert_results) : expert_results[k].expert = i

\* C4: a run that ends with no scored sheet never aggregates and reports
\* an error.
C4_NoValidSheetIsAnError ==
    (pc = "done" /\ expert_results = <<>>) =>
        /\ agg_input = <<>>
        /\ errors /= <<>>

\* C5: a run that ends with scored sheets of which none is admitted reports
\* the aggregation failure, calls neither geometric_mean_matrix nor
\* calculate_ahp on an aggregate, shows no ranking, and still shows the
\* table with every scored expert's rounded CR and result.
C5_NoAdmittedExpert ==
    (pc = "done" /\ expert_results /= <<>> /\ valid_matrices = <<>>) =>
        /\ errors = <<"no_valid_expert">>
        /\ agg_input = <<>>
        /\ final_matrix = <<>>
        /\ ranking = FALSE
        /\ table /= <<>>
        /\ Len(table[1]) = Len(expert_results)
        /\ \A k \in 1..Len(expert_results) :
              /\ table[1][k].expert = expert_results[k].expert
              /\ table[1][k].cr_value = round4(cr(expert_results[k].matrix))
              /\ table[1][k].result = "rejected"

\* A finished run with two scored sheets, none admitted, one of them with
\* an undefined CR.
C5_Witness ==
    /\ pc = "done"
    /\ Len(expert_results) = 2
    /\ valid_matrices = <<>>
    /\ IsNaN(expert_results[1].cr_value)
    /\ errors = <<"no_valid_expert">>

\* The reciprocal property of a matrix of radicals.
IsReciprocalRadical(g) ==
    /\ \A i \in 1..Rows(g) : g[i][i] = Exact(One)
    /\ \A i \in 1..Rows(g) : \A j \in 1..Rows(g) :
          i /= j => RMul(g[i][j], g[j][i]) = Exact(One)

\* C6: the geometric mean of a non-empty collection of reciprocal matrices
\* of one shape is reciprocal.
C6_GeometricMeanIsReciprocal ==
    (ret /= <<>> /\ \A m \in Range(arg) : IsReciprocal(m)) =>
        /\ Shape(ret[1]) = Shape(arg[1])
        /\ IsReciprocalRadical(ret[1])

\* The mean of two different 3x3 reciprocal matrices, with an irrational
\* entry.
C6_Witness ==
    /\ ret /= <<>>
    /\ Len(arg) = 2
    /\ Rows(arg[1]) = 3
    /\ arg[1] /= arg[2]
    /\ IsReciprocal(arg[1]) /\ IsReciprocal(arg[2])
    /\ ret[1][1][2].deg = 2

\* C7: on a reciprocal matrix of order n >= 2, calculate_ahp returns n
\* weights, none negative, that sum to 1.
C7_WeightsSumToOne ==
    (ret /= <<>> /\ IsReciprocal(arg) /\ Rows(arg) >= 2) =>
        /\ Len(ret[1].weights) = Rows(arg)
        /\ \A i \in 1..Rows(arg) : Le(Zero, ret[1].weights[i])
        /\ SumSeq(ret[1].weights) = One

\* calculate_ahp applied to an inconsistent 3x3 reciprocal matrix.
C7_Witness ==
    /\ ret /= <<>>
    /\ IsReciprocal(arg)
    /\ Rows(arg) = 3
    /\ ret[1].cr /= Zero
    /\ ret[1].weights[1] /= ret[1].weights[2]

ScaledToOne(w) ==
    LET total == SumSeq([i \in 1..Len(w) |-> Whole(w[i])])
    IN  [i \in 1..Len(w) |-> Div(Whole(w[i]), total)]

\* C8: on the matrix m[i][j] = w[i]/w[j] of order n >= 3, lambda_max = n,
\* CI = 0, CR = 0 and the weights are w scaled to sum 1; the 3x3 matrix of
\* ones gives the weights 1/3, 1/3, 1/3 and CR = 0.
C8_ConsistentMatrix ==
    ret /= <<>> =>
        /\ \A w \in WeightVectors :
              (Len(w) >= 3 /\ arg = ConsistentMatrix(w)) =>
                  /\ lambda_max(arg) = Whole(Len(w))
                  /\ ret[1].ci = Zero
                  /\ ret[1].cr = Zero
                  /\ ret[1].weights = ScaledToOne(w)
        /\ arg = <<<<One, One, One>>, <<One, One, One>>, <<One, One, One>>>> =>
              /\ ret[1].weights = <<Rat(1, 3), Rat(1, 3), Rat(1, 3)>>
              /\ ret[1].cr = Zero

\* calculate_ahp applied to the consistent matrix of the weights 1, 2, 3.
C8_Witness ==
    /\ ret /= <<>>
    /\ arg = ConsistentMatrix(<<1, 2, 3>>)
    /\ ret[1].weights = <<Rat(1, 6), Rat(1, 3), Rat(1, 2)>>

\* C9: the CI calculate_ahp returns is (lambda_max - n)/(n - 1) for n > 1
\* and 0 for n = 1, a defined number on every matrix of positive entries.
C9_CiIsDefined ==
    (ret /= <<>> /\ IsPositive(arg)) =>
        /\ Rows(arg) = 1 => ret[1].ci = Zero
        /\ Rows(arg) > 1 =>
              ret[1].ci = Div(Sub(lambda_max(arg), Whole(Rows(arg))),
                              Whole(Rows(arg) - 1))
        /\ IsFinite(ret[1].ci)

\* C10: the matrices given to geometric_mean_matrix have one order, and a
\* workbook whose admitted sheets differ in order does not end in the
\* file-read failure.
C10_AggregatedMatricesHaveOneOrder ==
    /\ agg_input /= <<>> => Stackable(agg_input[1])
    /\ (\E a, b \in Range(valid_matrices) : Shape(a) /= Shape(b)) =>
           "read_failed" \notin Range(errors)

====
